---- MODULE Spec2Model ----
(***************************************************************************)
(* Log-ratio change detection with an accumulator, as written in           *)
(* Capella-Log-Ratio-Change-Detection-Example-Using-API-and-TileDB.ipynb.  *)
(*                                                                         *)
(* Numbers.  The notebook computes in IEEE floating point with             *)
(* np.seterr(divide='ignore', invalid='ignore').  The model computes in    *)
(* exact arithmetic and keeps the three IEEE special values:               *)
(*   - a raster sample, and every value of lee_filter, is a rational n/d   *)
(*     or one of nan, inf, ninf (record [k, n, d]);                        *)
(*   - a value after np.log is a + b*ln(2) with integers a and b, or one   *)
(*     of nan, inf, ninf (record [k, a, b]).  np.log is exact on the       *)
(*     powers of two only, so the rasters enumerated below are those whose *)
(*     filtered samples are in a power-of-two ratio pixel by pixel.        *)
(* A raster is a sequence of rows, each a sequence of samples.             *)
(***************************************************************************)
EXTENDS Integers, Sequences, FiniteSets, TLC

VARIABLES features, i, cd, pc, err, maps, pending, probe

vars == <<features, i, cd, pc, err, maps, pending, probe>>

(***************************************************************************)
(* Program constants (cell 2 of the notebook).                             *)
(***************************************************************************)
THRSET == 2

MORPHWINSIZE == 3

FILTSIZE == 3

(***************************************************************************)
(* Bounds of the model.                                                    *)
(***************************************************************************)
\* longest feature list returned by the catalogue query
MaxN == 3

\* most rows of a binary map handed to the opening on its own
MaxRows == 4

\* largest sample of an image handed to the speckle filter on its own
MaxSample == 2

(***************************************************************************)
(* Exact rationals with the IEEE special values.                           *)
(***************************************************************************)
Abs(x) == IF x < 0 THEN -x ELSE x

RECURSIVE GCD(_, _)
GCD(a, b) == IF b = 0 THEN a ELSE GCD(b, a % b)

\* the rational n/d (d # 0) in lowest terms with a positive denominator
R(n, d) ==
    LET g == GCD(Abs(n), Abs(d))
        s == IF d < 0 THEN -1 ELSE 1
    IN  [k |-> "fin", n |-> s * (n \div g), d |-> s * (d \div g)]

RNaN == [k |-> "nan", n |-> 0, d |-> 1]

RInf == [k |-> "inf", n |-> 0, d |-> 1]

RNInf == [k |-> "ninf", n |-> 0, d |-> 1]

\* the sign of a value that is not nan: -1, 0 or 1
RSign(x) ==
    CASE x.k = "inf" -> 1
      [] x.k = "ninf" -> -1
      [] x.k = "fin" -> IF x.n > 0 THEN 1 ELSE IF x.n < 0 THEN -1 ELSE 0

RNeg(x) ==
    CASE x.k = "fin" -> [x EXCEPT !.n = -x.n]
      [] x.k = "inf" -> RNInf
      [] x.k = "ninf" -> RInf
      [] x.k = "nan" -> RNaN

RAdd(x, y) ==
    CASE x.k = "nan" \/ y.k = "nan" -> RNaN
      [] x.k = "fin" /\ y.k = "fin" -> R(x.n * y.d + y.n * x.d, x.d * y.d)
      [] x.k = "fin" -> y
      [] y.k = "fin" -> x
      [] x.k = y.k -> x
      [] OTHER -> RNaN

RSub(x, y) == RAdd(x, RNeg(y))

RMul(x, y) ==
    CASE x.k = "nan" \/ y.k = "nan" -> RNaN
      [] x.k = "fin" /\ y.k = "fin" -> R(x.n * y.n, x.d * y.d)
      [] RSign(x) * RSign(y) > 0 -> RInf
      [] RSign(x) * RSign(y) < 0 -> RNInf
      [] OTHER -> RNaN

\* IEEE division: x/0 is inf, -inf or (for 0/0) nan; nothing is raised
RDiv(x, y) ==
    CASE x.k = "nan" \/ y.k = "nan" -> RNaN
      [] x.k = "fin" /\ y.k = "fin" /\ y.n # 0 -> R(x.n * y.d, x.d * y.n)
      [] x.k = "fin" /\ y.k = "fin" /\ x.n = 0 -> RNaN
      [] x.k = "fin" /\ y.k = "fin" -> IF x.n > 0 THEN RInf ELSE RNInf
      [] x.k = "fin" -> R(0, 1)
      [] y.k = "fin" -> IF RSign(x) * (IF y.n < 0 THEN -1 ELSE 1) > 0
                        THEN RInf ELSE RNInf
      [] OTHER -> RNaN

(***************************************************************************)
(* Arrays.                                                                 *)
(***************************************************************************)
Height(m) == Len(m)

Width(m) == IF Len(m) = 0 THEN 0 ELSE Len(m[1])

Shape(m) == <<Height(m), Width(m)>>

RECURSIVE RowOf(_, _, _)
\* cells 1..w of row r, each computed once
RowOf(f(_, _), r, w) ==
    IF w = 0 THEN <<>> ELSE Append(RowOf(f, r, w - 1), f(r, w))

RECURSIVE RowsOf(_, _, _)
RowsOf(f(_, _), h, w) ==
    IF h = 0 THEN <<>> ELSE Append(RowsOf(f, h - 1, w), RowOf(f, h, w))

\* the array of shape sh whose cell (r, c) is f(r, c)
MapOver(sh, f(_, _)) == RowsOf(f, sh[1], sh[2])

Cells(m) == {<<r, c>> : r \in 1..Height(m), c \in 1..Width(m)}

RECURSIVE SumOver(_, _)
\* the integer sum of f over a finite set
SumOver(S, f) ==
    IF S = {} THEN 0
    ELSE LET x == CHOOSE y \in S : TRUE IN f[x] + SumOver(S \ {x}, f)

\* scipy.ndimage boundary mode 'reflect' (d c b a | a b c d | d c b a):
\* the index in 1..n that position p of the extended axis reads
Reflect(p, n) ==
    LET j == (p - 1) % (2 * n)
    IN  IF j < n THEN j + 1 ELSE 2 * n - j

\* the offsets of a centred window of the given size along one axis
WindowOffsets(size) == (0 - (size \div 2))..(size - (size \div 2) - 1)

(***************************************************************************)
(* Speckle filter (cell 3).  Samples are read as floating-point numbers;   *)
(* an image handed to the filter holds integer-valued samples.             *)
(***************************************************************************)
\* scipy.ndimage.uniform_filter(img, (size, size)), default mode 'reflect':
\* the mean of the size x size window around each cell
uniform_filter(img, size) ==
    LET H == Height(img)
        W == Width(img)
        Win == WindowOffsets(size) \X WindowOffsets(size)
        at(r, c) ==
            LET f == [o \in Win |-> img[Reflect(r + o[1], H)][Reflect(c + o[2], W)]]
            IN  R(SumOver(Win, f), size * size)
    IN  MapOver(Shape(img), at)

\* img**2
Squared(img) == MapOver(Shape(img), LAMBDA r, c : img[r][c] * img[r][c])

\* scipy.ndimage.variance(img): the population variance of all samples
variance(img) ==
    LET N == Height(img) * Width(img)
        S == Cells(img)
        s1 == SumOver(S, [p \in S |-> img[p[1]][p[2]]])
        s2 == SumOver(S, [p \in S |-> img[p[1]][p[2]] * img[p[1]][p[2]]])
    IN  R(N * s2 - s1 * s1, N * N)

lee_filter(img, size) ==
    LET img_mean == uniform_filter(img, size)
        img_sqr_mean == uniform_filter(Squared(img), size)
        img_variance(r, c) ==
            RSub(img_sqr_mean[r][c], RMul(img_mean[r][c], img_mean[r][c]))
        overall_variance == variance(img)
        img_weights(r, c) ==
            RDiv(img_variance(r, c), RAdd(img_variance(r, c), overall_variance))
        img_output(r, c) ==
            RAdd(img_mean[r][c],
                 RMul(img_weights(r, c), RSub(R(img[r][c], 1), img_mean[r][c])))
    IN  MapOver(Shape(img), img_output)

(***************************************************************************)
(* Reading a feature (cell 5).  A feature stands for the window of its     *)
(* scene inside the bounding box: the samples src.read returns and the     *)
(* scene's nodata value.                                                   *)
(***************************************************************************)
clipped_read(ft) ==
    LET img == MapOver(Shape(ft.img),
                       LAMBDA r, c : IF ft.img[r][c] = ft.nodata THEN 0
                                     ELSE ft.img[r][c])
    IN  lee_filter(img, FILTSIZE)

(***************************************************************************)
(* Values after np.log: a + b*ln(2), or nan, inf, ninf.                    *)
(***************************************************************************)
L(a, b) == [k |-> "fin", a |-> a, b |-> b]

LNaN == [k |-> "nan", a |-> 0, b |-> 0]

LInf == [k |-> "inf", a |-> 0, b |-> 0]

LNInf == [k |-> "ninf", a |-> 0, b |-> 0]

RECURSIVE Log2(_, _)
\* the base-2 logarithm of n/d > 0, a power of two in lowest terms
Log2(n, d) ==
    CASE n = d -> 0
      [] n >= 2 * d -> Log2(n, 2 * d) + 1
      [] 2 * n <= d -> Log2(2 * n, d) - 1

\* np.log with invalid='ignore', divide='ignore'
Ln(x) ==
    CASE x.k = "nan" \/ x.k = "ninf" -> LNaN
      [] x.k = "inf" -> LInf
      [] x.k = "fin" /\ x.n < 0 -> LNaN
      [] x.k = "fin" /\ x.n = 0 -> LNInf
      [] x.k = "fin" /\ x.n > 0 -> L(0, Log2(x.n, x.d))

LAdd(x, y) ==
    CASE x.k = "nan" \/ y.k = "nan" -> LNaN
      [] x.k = "fin" /\ y.k = "fin" -> L(x.a + y.a, x.b + y.b)
      [] x.k = "fin" -> y
      [] y.k = "fin" -> x
      [] x.k = y.k -> x
      [] OTHER -> LNaN

\* the sign of a + b*ln(2), from 693/1000 < ln(2) < 694/1000
LSign(a, b) ==
    LET lo == 1000 * a + 693 * b
        hi == 1000 * a + 694 * b
    IN  CASE a = 0 /\ b = 0 -> 0
          [] lo > 0 /\ hi > 0 -> 1
          [] lo < 0 /\ hi < 0 -> -1

\* x < y for two values that are not nan
LLess(x, y) ==
    CASE x.k = "inf" \/ y.k = "ninf" -> FALSE
      [] x.k = "ninf" \/ y.k = "inf" -> TRUE
      [] OTHER -> LSign(x.a - y.a, x.b - y.b) < 0

(***************************************************************************)
(* Log ratio (line 158).  numpy broadcasts the two operands: an axis of    *)
(* length 1 is repeated, any other difference raises ValueError.           *)
(***************************************************************************)
Broadcastable(s1, s2) ==
    \A ax \in 1..2 : s1[ax] = s2[ax] \/ s1[ax] = 1 \/ s2[ax] = 1

BroadcastShape(s1, s2) ==
    [ax \in 1..2 |-> IF s1[ax] >= s2[ax] THEN s1[ax] ELSE s2[ax]]

\* the cell of m that cell (r, c) of a broadcast result reads
At(m, r, c) ==
    m[IF Height(m) = 1 THEN 1 ELSE r][IF Width(m) = 1 THEN 1 ELSE c]

\* np.log(img2/img1)
log_ratio(img1, img2) ==
    MapOver(BroadcastShape(Shape(img1), Shape(img2)),
            LAMBDA r, c : Ln(RDiv(At(img2, r, c), At(img1, r, c))))

(***************************************************************************)
(* Statistics and thresholding (lines 162-164).  The log ratio holds       *)
(* b*ln(2) in every finite cell.  The threshold is                         *)
(*   thr = nanmean + THRSET*nanstd = (S + THRSET*sqrt(n*Q - S*S))/n * ln(2) *)
(* with n, S and Q the count, sum and sum of squares of the b of the cells *)
(* that are not nan; it is nan when no cell is left or one is infinite.    *)
(* It is kept as (n, S, Q) and compared without taking the root.           *)
(***************************************************************************)
threshold(dIx) ==
    LET NotNaN == {p \in Cells(dIx) : dIx[p[1]][p[2]].k # "nan"}
        Fin == {p \in Cells(dIx) : dIx[p[1]][p[2]].k = "fin"}
        b == [p \in Fin |-> dIx[p[1]][p[2]].b]
    IN  IF NotNaN = {} \/ NotNaN # Fin
        THEN [k |-> "nan", n |-> 0, S |-> 0, Q |-> 0]
        ELSE [k |-> "fin", n |-> Cardinality(Fin), S |-> SumOver(Fin, b),
              Q |-> SumOver(Fin, [p \in Fin |-> b[p] * b[p]])]

\* n*(v - thr)/ln(2) = Lhs - sqrt(Rad) for a finite cell v = b*ln(2)
Lhs(v, thr) == thr.n * v.b - thr.S

Rad(thr) == THRSET * THRSET * (thr.n * thr.Q - thr.S * thr.S)

\* v < thr; False when either side is nan
Below(v, thr) ==
    /\ thr.k = "fin"
    /\ v.k = "fin"
    /\ \/ Lhs(v, thr) < 0
       \/ Lhs(v, thr) * Lhs(v, thr) < Rad(thr)

\* v > thr; False when either side is nan
Above(v, thr) ==
    /\ thr.k = "fin"
    /\ v.k = "fin"
    /\ Lhs(v, thr) > 0
    /\ Lhs(v, thr) * Lhs(v, thr) > Rad(thr)

\* dIx[dIx < thr] = 0.0
ZeroBelow(dIx, thr) ==
    MapOver(Shape(dIx),
            LAMBDA r, c : IF Below(dIx[r][c], thr) THEN L(0, 0) ELSE dIx[r][c])

\* dIx[dIx > thr] = 1.0, on the array the line before has already written
OneAbove(dIx, thr) ==
    MapOver(Shape(dIx),
            LAMBDA r, c : IF Above(dIx[r][c], thr) THEN L(1, 0) ELSE dIx[r][c])

thresholded(dIx) == OneAbove(ZeroBelow(dIx, threshold(dIx)), threshold(dIx))

(***************************************************************************)
(* Morphological opening (lines 167-168): scipy.ndimage.grey_opening with  *)
(* a flat size x size window (size odd) and the default mode 'reflect' is  *)
(* grey_erosion followed by grey_dilation.  The filters compare with <, so *)
(* a window holding nan beside numbers has a scan-order dependent result;  *)
(* the maps that reach the opening here are free of nan or nan throughout, *)
(* where every order gives the same value.                                 *)
(***************************************************************************)
Window(m, size, r, c) ==
    {m[Reflect(r + o[1], Height(m))][Reflect(c + o[2], Width(m))] :
        o \in WindowOffsets(size) \X WindowOffsets(size)}

WindowMin(S) ==
    IF \E x \in S : x.k = "nan" THEN LNaN
    ELSE CHOOSE x \in S : \A y \in S : ~LLess(y, x)

WindowMax(S) ==
    IF \E x \in S : x.k = "nan" THEN LNaN
    ELSE CHOOSE x \in S : \A y \in S : ~LLess(x, y)

grey_erosion(m, size) ==
    MapOver(Shape(m), LAMBDA r, c : WindowMin(Window(m, size, r, c)))

grey_dilation(m, size) ==
    MapOver(Shape(m), LAMBDA r, c : WindowMax(Window(m, size, r, c)))

\* the opening with its dilation left out
grey_opening_eroded(m, size) == grey_erosion(m, size)

grey_opening(m, size) == grey_dilation(grey_erosion(m, size), size)

(***************************************************************************)
(* Accumulator (lines 171-174).  cd is a notebook global: undefined until  *)
(* the first assignment.  cd += dIx adds in place, so dIx is broadcast to  *)
(* the shape of cd and a dIx that does not fit raises ValueError.          *)
(***************************************************************************)
Undefined == [set |-> FALSE, val |-> <<>>]

Defined(m) == [set |-> TRUE, val |-> m]

FitsInPlace(acc, m) ==
    \A ax \in 1..2 : Shape(m)[ax] = Shape(acc)[ax] \/ Shape(m)[ax] = 1

\* cd += dIx
AddInPlace(acc, m) ==
    MapOver(Shape(acc), LAMBDA r, c : LAdd(acc[r][c], At(m, r, c)))

(***************************************************************************)
(* One pass of the loop body (lines 149-174) on the pair (ft1, ft2):       *)
(* what each line leaves behind.                                           *)
(***************************************************************************)
PairRaises(ft1, ft2) ==
    ~Broadcastable(Shape(clipped_read(ft1)), Shape(clipped_read(ft2)))

PairMap(ft1, ft2) ==
    LET img1 == clipped_read(ft1)
        img2 == clipped_read(ft2)
        d == log_ratio(img1, img2)
        bin == thresholded(d)
    IN  [d |-> d, thr |-> threshold(d), bin |-> bin,
         cm |-> grey_opening(bin, MORPHWINSIZE)]

\* the accumulator with the else branch assigning instead of adding
AccumulateAssigns(acc, idx, dIx) ==
    IF idx = 0 THEN [err |-> "none", cd |-> Defined(dIx)]
    ELSE IF ~acc.set THEN [err |-> "NameError", cd |-> acc]
    ELSE IF ~FitsInPlace(acc.val, dIx) THEN [err |-> "ValueError", cd |-> acc]
    ELSE [err |-> "none", cd |-> Defined(dIx)]

\* lines 171-174 for loop index idx: the next accumulator, or the error raised
Accumulate(acc, idx, dIx) ==
    IF idx = 0 THEN [err |-> "none", cd |-> Defined(dIx)]
    ELSE IF ~acc.set THEN [err |-> "NameError", cd |-> acc]
    ELSE IF ~FitsInPlace(acc.val, dIx) THEN [err |-> "ValueError", cd |-> acc]
    ELSE [err |-> "none", cd |-> Defined(AddInPlace(acc.val, dIx))]

(***************************************************************************)
(* The features the catalogue query returns.  Tile(h, x, y) has h rows     *)
(* <<x, y>>; lee_filter(_, 3) maps Tile(h, 14p - 3q, 14q - 3p) to          *)
(* Tile(h, 11p, 11q) when p # q, and a flat tile to nan.                   *)
(***************************************************************************)
Tile(h, x, y) == [r \in 1..h |-> <<x, y>>]

Feature(img, nodata) == [img |-> img, nodata |-> nodata]

Rasters ==
    { Feature(Tile(2, 8, 25), 0),    \* filtered: 11, 22
      Feature(Tile(2, 16, 50), 0),   \* twice the first
      Feature(Tile(2, 4, 106), 0),   \* filtered: 22, 88
      Feature(Tile(2, 25, 8), 0),    \* filtered: 22, 11
      Feature(Tile(2, 1, 1), 0),     \* flat
      Feature(Tile(2, 2, 2), 0),     \* flat
      Feature(Tile(2, 7, 7), 7),     \* nodata throughout
      Feature(Tile(1, 8, 25), 0),    \* one row: broadcasts against two
      Feature(Tile(3, 8, 25), 0) }   \* three rows: does not

FeatureLists == UNION {[1..n -> Rasters] : n \in 0..MaxN}

Idle == [op |-> "none"]

(***************************************************************************)
(* The notebook run top to bottom in a fresh kernel: the loop cell, then   *)
(* the display cell.  i is the loop index; maps records, pair by pair,     *)
(* what the loop body computed (a history variable).                       *)
(***************************************************************************)
Init ==
    /\ features \in FeatureLists
    /\ i = 0
    /\ cd = Undefined
    /\ pc = "loop"
    /\ err = "none"
    /\ maps = <<>>
    /\ pending = {}
    /\ probe = Idle

\* one iteration of the loop body that runs to its end
Iterate ==
    /\ pc = "loop"
    /\ i < Len(features) - 1
    /\ ~PairRaises(features[i + 1], features[i + 2])
    /\ \E m \in {PairMap(features[i + 1], features[i + 2])} :
         \E acc \in {Accumulate(cd, i, m.cm)} :
            /\ acc.err = "none"
            /\ cd' = acc.cd
            /\ maps' = Append(maps, m)
    /\ i' = i + 1
    /\ UNCHANGED <<features, pc, err, pending, probe>>

\* one iteration that raises at line 158: the cell stops, cd keeps what it had
IterateRaises ==
    /\ pc = "loop"
    /\ i < Len(features) - 1
    /\ PairRaises(features[i + 1], features[i + 2])
    /\ err' = "ValueError"
    /\ pc' = "failed"
    /\ UNCHANGED <<features, i, cd, maps, pending, probe>>

\* one iteration that raises at line 174
AccumulateRaises ==
    /\ pc = "loop"
    /\ i < Len(features) - 1
    /\ ~PairRaises(features[i + 1], features[i + 2])
    /\ \E m \in {PairMap(features[i + 1], features[i + 2])} :
         \E acc \in {Accumulate(cd, i, m.cm)} :
            /\ acc.err # "none"
            /\ err' = acc.err
    /\ pc' = "failed"
    /\ UNCHANGED <<features, i, cd, maps, pending, probe>>

\* range(0, len(features) - 1) is exhausted (at once when it is empty)
LoopEnd ==
    /\ pc = "loop"
    /\ i >= Len(features) - 1
    /\ pc' = "display"
    /\ UNCHANGED <<features, i, cd, err, maps, pending, probe>>

\* the display cell (lines 190-202) runs to its end
Display ==
    /\ pc = "display"
    /\ Len(features) > 0
    /\ cd.set
    /\ pc' = "done"
    /\ UNCHANGED <<features, i, cd, err, maps, pending, probe>>

\* features[0] on an empty list, or imshow(cd) with cd never assigned
DisplayRaises ==
    /\ pc = "display"
    /\ \/ /\ Len(features) = 0
          /\ err' = "IndexError"
       \/ /\ Len(features) > 0
          /\ ~cd.set
          /\ err' = "NameError"
    /\ pc' = "failed"
    /\ UNCHANGED <<features, i, cd, maps, pending, probe>>

Next ==
    \/ Iterate
    \/ IterateRaises
    \/ AccumulateRaises
    \/ LoopEnd
    \/ Display
    \/ DisplayRaises

Spec == Init /\ [][Next]_vars

(***************************************************************************)
(* The loop body run for the pairs in any order, each pair once, as by     *)
(* independent workers that share the notebook's cd: worker j runs lines   *)
(* 149-174 with i = j.  An exception ends that worker only.                *)
(***************************************************************************)
InitPar ==
    /\ features \in FeatureLists
    /\ i = 0
    /\ cd = Undefined
    /\ pc = "workers"
    /\ err = "none"
    /\ maps = <<>>
    /\ pending = 0..(Len(features) - 2)
    /\ probe = Idle

WorkerFold(j) ==
    /\ pc = "workers"
    /\ j \in pending
    /\ ~PairRaises(features[j + 1], features[j + 2])
    /\ \E m \in {PairMap(features[j + 1], features[j + 2])} :
         \E acc \in {Accumulate(cd, j, m.cm)} :
            /\ cd' = acc.cd
            /\ err' = IF acc.err = "none" THEN err ELSE acc.err
            /\ maps' = Append(maps, m)
    /\ pending' = pending \ {j}
    /\ UNCHANGED <<features, i, pc, probe>>

WorkerRaises(j) ==
    /\ pc = "workers"
    /\ j \in pending
    /\ PairRaises(features[j + 1], features[j + 2])
    /\ err' = "ValueError"
    /\ pending' = pending \ {j}
    /\ UNCHANGED <<features, i, cd, pc, maps, probe>>

NextPar == \E j \in 0..(MaxN - 2) : WorkerFold(j) \/ WorkerRaises(j)

SpecPar == InitPar /\ [][NextPar]_vars

(***************************************************************************)
(* lee_filter on its own: any small image, window 1 or FILTSIZE.           *)
(***************************************************************************)
Arrays(h, w, S) == [1..h -> [1..w -> S]]

LeeImages ==
    Arrays(1, 2, 0..MaxSample) \cup Arrays(2, 1, 0..MaxSample)
        \cup Arrays(2, 2, 0..MaxSample)

NoPipeline ==
    /\ features = <<>>
    /\ i = 0
    /\ cd = Undefined
    /\ pc = "probe"
    /\ err = "none"
    /\ maps = <<>>
    /\ pending = {}

InitLee ==
    /\ NoPipeline
    /\ probe \in {[op |-> "lee", img |-> m, size |-> s, done |-> FALSE, out |-> <<>>] :
                     m \in LeeImages, s \in {1, FILTSIZE}}

ApplyLee ==
    /\ probe.op = "lee"
    /\ ~probe.done
    /\ probe' = [probe EXCEPT !.done = TRUE,
                              !.out = lee_filter(probe.img, probe.size)]
    /\ UNCHANGED <<features, i, cd, pc, err, maps, pending>>

SpecLee == InitLee /\ [][ApplyLee]_vars

(***************************************************************************)
(* grey_opening on its own: any binary map of up to MaxRows rows and up to *)
(* MORPHWINSIZE columns, window 1 or MORPHWINSIZE.                         *)
(***************************************************************************)
Zero == L(0, 0)

One == L(1, 0)

BinaryMaps ==
    UNION {Arrays(h, w, {Zero, One}) : h \in 1..MaxRows, w \in 1..MORPHWINSIZE}

InitOpen ==
    /\ NoPipeline
    /\ probe \in {[op |-> "open", img |-> m, size |-> s, done |-> FALSE, out |-> <<>>] :
                     m \in BinaryMaps, s \in {1, MORPHWINSIZE}}

ApplyOpen ==
    /\ probe.op = "open"
    /\ ~probe.done
    /\ probe' = [probe EXCEPT !.done = TRUE,
                              !.out = grey_opening(probe.img, probe.size)]
    /\ UNCHANGED <<features, i, cd, pc, err, maps, pending>>

SpecOpen == InitOpen /\ [][ApplyOpen]_vars

(***************************************************************************)
(* Properties.                                                             *)
(***************************************************************************)
LoopFinished == pc \in {"display", "done"}

AllCells(m, P(_)) == \A p \in Cells(m) : P(m[p[1]][p[2]])

RECURSIVE SumCell(_, _, _, _)
\* cell (r, c) of cms[1] + ... + cms[k], later maps broadcast to the first
SumCell(cms, k, r, c) ==
    IF k = 1 THEN At(cms[1], r, c)
    ELSE LAdd(SumCell(cms, k - 1, r, c), At(cms[k], r, c))

ElementwiseSum(cms) ==
    MapOver(Shape(cms[1]), LAMBDA r, c : SumCell(cms, Len(cms), r, c))

CleanedMaps == [k \in 1..Len(maps) |-> maps[k].cm]

\* C1: while the loop runs the pairs (i, i+1) are taken in order, pair k's
\* record is the (filter, change, clean) map of rasters k and k+1, cd is
\* undefined before the first pair and the elementwise sum of the maps so far
\* after it; a loop that ends has taken all N-1 pairs.
FoldCorrect ==
    pc \in {"loop", "display", "done"} =>
        /\ Len(maps) = i
        /\ \A k \in 1..Len(maps) : maps[k] = PairMap(features[k], features[k + 1])
        /\ cd.set = (i > 0)
        /\ i > 0 => cd.val = ElementwiseSum(CleanedMaps)
        /\ (LoopFinished /\ Len(features) >= 2) => i = Len(features) - 1

\* C1 witness: three rasters of one shape, two different maps, a sum that is
\* neither
FoldWitness ==
    /\ pc = "done"
    /\ Len(features) = 3
    /\ \A k \in 1..3 : Shape(features[k].img) = Shape(features[1].img)
    /\ Len(maps) = 2
    /\ maps[1].cm # maps[2].cm
    /\ cd.val # maps[1].cm
    /\ cd.val # maps[2].cm

\* C2: every finite cell of the log ratio is binarized against the untouched
\* log ratio: 1.0 when it exceeds the threshold and 0.0 otherwise.
SnapshotBinarization ==
    \A k \in 1..Len(maps) :
        \A p \in Cells(maps[k].d) :
            LET v == maps[k].d[p[1]][p[2]]
            IN  v.k = "fin" =>
                    maps[k].bin[p[1]][p[2]] =
                        IF Above(v, maps[k].thr) THEN One ELSE Zero

\* C3: no cell of the heatmap is nan.
HeatmapNeverNaN == cd.set => AllCells(cd.val, LAMBDA v : v.k # "nan")

\* two rasters of one shape, strictly positive, in the same ratio at every cell
UniformRatio(ft1, ft2) ==
    /\ Shape(ft1.img) = Shape(ft2.img)
    /\ \A p \in Cells(ft1.img) :
          /\ ft1.img[p[1]][p[2]] > 0 /\ ft1.img[p[1]][p[2]] # ft1.nodata
          /\ ft2.img[p[1]][p[2]] > 0 /\ ft2.img[p[1]][p[2]] # ft2.nodata
    /\ \A p, q \in Cells(ft1.img) :
          ft2.img[p[1]][p[2]] * ft1.img[q[1]][q[2]]
              = ft2.img[q[1]][q[2]] * ft1.img[p[1]][p[2]]

\* C4: a pair of rasters in one uniform ratio gives an all-zero change map,
\* an all-zero cleaned map and, as a two-raster sequence, an all-zero heatmap.
UniformPairIsZero ==
    (LoopFinished /\ Len(features) = 2 /\ UniformRatio(features[1], features[2])) =>
        /\ Len(maps) = 1
        /\ AllCells(maps[1].bin, LAMBDA v : v = Zero)
        /\ AllCells(maps[1].cm, LAMBDA v : v = Zero)
        /\ cd.set
        /\ AllCells(cd.val, LAMBDA v : v = Zero)

\* C5: every cleaned map holds 0.0 and 1.0 only, and every heatmap cell is the
\* number of pairs folded so far whose cleaned map flags that cell.
HeatmapCounts ==
    /\ \A k \in 1..Len(maps) : AllCells(maps[k].cm, LAMBDA v : v \in {Zero, One})
    /\ cd.set =>
          \A p \in Cells(cd.val) :
              cd.val[p[1]][p[2]] =
                  L(Cardinality({k \in 1..Len(maps) :
                                    At(maps[k].cm, p[1], p[2]) = One}), 0)

\* C6: with fewer than two rasters no pair is processed, no heatmap exists and
\* nothing fails, the display of the result included.
ShortSequenceIsExplicit ==
    Len(features) < 2 => (maps = <<>> /\ ~cd.set /\ pc # "failed")

\* C7: a pair of rasters of different shapes produces no change map and leaves
\* the accumulator alone: the run ends in an error at that pair.
ShapeMismatchRaises ==
    \A k \in 1..(Len(features) - 1) :
        Shape(features[k].img) # Shape(features[k + 1].img) =>
            /\ Len(maps) < k
            /\ ~LoopFinished

\* C8: lee_filter(img, 1) is img.
IdentityFilter ==
    (probe.op = "lee" /\ probe.done /\ probe.size = 1) =>
        probe.out = MapOver(Shape(probe.img), LAMBDA r, c : R(probe.img[r][c], 1))

\* the cell of m that position (r, c) of the map extended by reflection reads
Ext(m, r, c) == m[Reflect(r, Height(m))][Reflect(c, Width(m))]

\* cell p lies in a size x size square of 1s that is inside the map
InSquareInside(m, size, p) ==
    \E r0 \in 1..(Height(m) - size + 1), c0 \in 1..(Width(m) - size + 1) :
        /\ p[1] \in r0..(r0 + size - 1)
        /\ p[2] \in c0..(c0 + size - 1)
        /\ \A r \in r0..(r0 + size - 1), c \in c0..(c0 + size - 1) : m[r][c] = One

\* cell p lies in a size x size square of 1s of the map extended by reflection
InSquareReflected(m, size, p) ==
    \E r0 \in (p[1] - size + 1)..p[1], c0 \in (p[2] - size + 1)..p[2] :
        \A r \in r0..(r0 + size - 1), c \in c0..(c0 + size - 1) : Ext(m, r, c) = One

\* a 1 with a neighbour in the map and no neighbour that is 1
Isolated(m, p) ==
    LET Nb == {q \in Cells(m) : q # p /\ Abs(q[1] - p[1]) <= 1 /\ Abs(q[2] - p[2]) <= 1}
    IN  m[p[1]][p[2]] = One /\ Nb # {} /\ \A q \in Nb : m[q[1]][q[2]] = Zero

\* C9 as stated: the opened map keeps exactly the cells that lie in a full
\* size x size square of 1s of the map.
OpeningKeepsFullSquaresOnly ==
    (probe.op = "open" /\ probe.done) =>
        /\ Shape(probe.out) = Shape(probe.img)
        /\ \A p \in Cells(probe.img) :
              probe.out[p[1]][p[2]] =
                  IF InSquareInside(probe.img, probe.size, p) THEN One ELSE Zero

\* C9 as amended: same shape, no 0 becomes 1, every cell in a full square of
\* 1s inside the map is kept, every 1 in no square of 1s of the map extended
\* by reflection becomes 0, and so does an isolated 1 under the 3 x 3 window.
OpeningReflected ==
    (probe.op = "open" /\ probe.done) =>
        /\ Shape(probe.out) = Shape(probe.img)
        /\ \A p \in Cells(probe.img) :
              /\ probe.out[p[1]][p[2]] \in {Zero, One}
              /\ probe.out[p[1]][p[2]] = One => probe.img[p[1]][p[2]] = One
              /\ InSquareInside(probe.img, probe.size, p) => probe.out[p[1]][p[2]] = One
              /\ ~InSquareReflected(probe.img, probe.size, p) => probe.out[p[1]][p[2]] = Zero
              /\ (probe.size = MORPHWINSIZE /\ Isolated(probe.img, p)) =>
                    probe.out[p[1]][p[2]] = Zero

\* C9 witness: under the 3 x 3 window one cell is kept inside a full square
\* of the map and another 1 is removed
OpeningWitness ==
    /\ probe.op = "open"
    /\ probe.done
    /\ probe.size = MORPHWINSIZE
    /\ \E p, q \in Cells(probe.img) :
          /\ InSquareInside(probe.img, probe.size, p)
          /\ probe.out[p[1]][p[2]] = One
          /\ probe.img[q[1]][q[2]] = One
          /\ probe.out[q[1]][q[2]] = Zero

RECURSIVE SeqRun(_, _)
\* the accumulator and error after the loop has taken the first k pairs in order
SeqRun(fs, k) ==
    IF k = 0 THEN [err |-> "none", cd |-> Undefined]
    ELSE LET prev == SeqRun(fs, k - 1)
         IN  IF prev.err # "none" THEN prev
             ELSE IF PairRaises(fs[k], fs[k + 1])
                  THEN [err |-> "ValueError", cd |-> prev.cd]
                  ELSE Accumulate(prev.cd, k - 1, PairMap(fs[k], fs[k + 1]).cm)

====
